---- MODULE Spec2Model ----
(***************************************************************************)
(* The S&P 500 ETL pipeline (src/etl.py, src/data_loader.py,               *)
(* src/database.py) and the dashboard's read (src/main_app.py) as a state  *)
(* machine over the SQLite store.                                          *)
(*                                                                         *)
(* Values.  SQL / Python values are tagged records: Real(x) a number,      *)
(* Text(s) a string, Time(t) an ISO timestamp string taken from the clock, *)
(* NULL for SQL NULL and Python None, NaN for float('nan').  Reals that    *)
(* the code rounds to two decimals are kept as integers in hundredths.     *)
(***************************************************************************)
EXTENDS Integers, Sequences, FiniteSets, TLC

\* ------------------------------------------------------------------ bounds

\* Longest symbol list a call of a fetch function is given, and the number
\* of symbols such lists draw on.
MaxLen == 3

\* The clock stops here: datetime.now() is read twice per run, so two runs.
MaxClock == 4

\* data_loader.py:60 sets batch_size = 100.  The batching code is parametric
\* in it; the model scales it down so that lists of MaxLen symbols span more
\* than one batch.
batch_size == 2

\* The tickers the constituent source lists over the runs modelled.
Symbols == {"AAA", "BBB", "CCC"}

Tickers == <<"AAA", "BBB", "CCC", "DDD", "EEE">>

\* The tickers a list handed to a fetch function on its own draws on.
UnitSymbols == {Tickers[i] : i \in 1..(IF MaxLen < 5 THEN MaxLen ELSE 5)}

\* ------------------------------------------------------------------ values

NULL == [null |-> TRUE]
NaN == [nan |-> TRUE]
Real(x) == [real |-> x]
Text(s) == [text |-> s]
Time(t) == [time |-> t]

\* A key that a dict does not hold (info.get(key, default) yields default).
Missing == [missing |-> TRUE]

\* What a call that raised returned: nothing.
Raise == [raise |-> TRUE]

\* A key absent from the batch response (yf_data['Close'][sym] -> KeyError).
Absent == [absent |-> TRUE]


\* The Symbol column of a frame or relation, as a set.
SymbolsOf(rows) == {rows[i].Symbol : i \in 1..Len(rows)}

\* Duplicate-free sequences of tickers of length <= MaxLen: a valid symbol
\* list (Symbol is the unique key of a constituent record).
SymbolLists ==
    {s \in UNION {[1..n -> UnitSymbols] : n \in 0..MaxLen} :
        \A i, j \in 1..Len(s) : i # j => s[i] # s[j]}

\* The ticker order of the scraped table (alphabetical by symbol).
Rank(s) == CHOOSE i \in 1..Len(Tickers) : Tickers[i] = s

Min(a, b) == IF a < b THEN a ELSE b

\* n / d rounded to the nearest integer (exact for the values used here).
RoundDiv(n, d) == (n + d \div 2) \div d

\* ------------------------------------------------------- src/data_loader.py

\* get_sp500_list's successful result: the rows of the table, three columns
\* selected.  The scraped Security name is carried along unchanged.
ConstituentRow(s) == [Symbol |-> s, Security |-> Text(s)]

\* The tables the source serves: any of Symbols, in ticker order.
ConstituentFrames ==
    {[i \in 1..Len(l) |-> ConstituentRow(l[i])] : l \in
        {s \in UNION {[1..n -> Symbols] : n \in 0..Cardinality(Symbols)} :
            \A i, j \in 1..Len(s) : i < j => Rank(s[i]) < Rank(s[j])}}

\* What the page fetch and table search yield: Raise (HTTP error, no table
\* with the required columns, ...) or the table found.
Table(rows) == [table |-> rows]

\* get_sp500_list: the table's rows, or on any exception the empty
\* DataFrame (lines 47-49).
get_sp500_list(page) == IF page = Raise THEN <<>> ELSE page.table

\* Lines 89-95: start and end of the close series, the return in percent
\* rounded to two decimals (held in hundredths of a percent).
YtdReturn(data) ==
    LET start_price == data[1]
        end_price == data[Len(data)]
    IN  RoundDiv((end_price - start_price) * 10000, start_price)

\* A symbol's Close column after dropna(): its prices in date order.
Series(prices) == [close |-> prices]

\* Lines 80-103: one symbol of a downloaded batch.  closes[sym] is the
\* symbol's Close column, or Absent (KeyError): no record then, nor for an
\* empty series.
PerfOfSymbol(sym, closes, today) ==
    IF closes[sym] = Absent THEN <<>>
    ELSE IF closes[sym].close = <<>> THEN <<>>
    ELSE << [Symbol |-> sym,
             YTD |-> Real(YtdReturn(closes[sym].close)),
             last_performance_update |-> Time(today)] >>

RECURSIVE PerfOfBatch(_, _, _)
PerfOfBatch(batch_symbols, closes, today) ==
    IF batch_symbols = <<>> THEN <<>>
    ELSE PerfOfSymbol(Head(batch_symbols), closes, today)
         \o PerfOfBatch(Tail(batch_symbols), closes, today)

\* yf_data.empty: the downloaded frame has no rows (every column is empty)
\* or no columns.
FrameEmpty(batch_symbols, closes) ==
    \A i \in 1..Len(batch_symbols) :
        closes[batch_symbols[i]] = Absent \/ closes[batch_symbols[i]] = Series(<<>>)

\* Lines 62-108: the batches from offset i on.  raises is the set of batch
\* numbers whose yf.download raises; such a batch is logged and skipped.
RECURSIVE PerfFrom(_, _, _, _, _)
PerfFrom(i, symbols, raises, closes, today) ==
    IF i >= Len(symbols) THEN <<>>
    ELSE LET batch_symbols == SubSeq(symbols, i + 1, Min(i + batch_size, Len(symbols)))
             batch_no == (i \div batch_size) + 1
             got == IF batch_no \in raises THEN <<>>
                    ELSE IF FrameEmpty(batch_symbols, closes) THEN <<>>
                    ELSE PerfOfBatch(batch_symbols, closes, today)
         IN  got \o PerfFrom(i + batch_size, symbols, raises, closes, today)

\* Mutant: the batch-level except leaves the loop (a raise or a break in
\* place of falling through to the next batch).
RECURSIVE PerfFrom_abort(_, _, _, _, _)
PerfFrom_abort(i, symbols, raises, closes, today) ==
    IF i >= Len(symbols) THEN <<>>
    ELSE LET batch_symbols == SubSeq(symbols, i + 1, Min(i + batch_size, Len(symbols)))
             batch_no == (i \div batch_size) + 1
         IN  IF batch_no \in raises THEN <<>>
             ELSE (IF FrameEmpty(batch_symbols, closes) THEN <<>>
                   ELSE PerfOfBatch(batch_symbols, closes, today))
                  \o PerfFrom_abort(i + batch_size, symbols, raises, closes, today)

get_performance_data_abort(symbols, raises, closes, today) ==
    PerfFrom_abort(0, symbols, raises, closes, today)

\* get_performance_data(symbols): pd.DataFrame(perf_data), as the sequence
\* of its rows.
get_performance_data(symbols, raises, closes, today) ==
    PerfFrom(0, symbols, raises, closes, today)

\* dict.get(key, default)
InfoGet(info, key, default) == IF info[key] = Missing THEN default ELSE info[key]

\* isinstance(v, (int, float)): NaN is a float.
IsNumber(v) == v = NaN \/ "real" \in DOMAIN v

\* Python truth of a value.
Truthy(v) ==
    CASE v = NULL -> FALSE
      [] "real" \in DOMAIN v -> v.real # 0
      [] OTHER -> TRUE

\* Lines 133-137: trailing P/E with the forward P/E as the get's default,
\* then None unless it is an int or a float.
SelectPE(info) ==
    LET pe_ratio == InfoGet(info, "trailingPE", InfoGet(info, "forwardPE", NULL))
    IN  IF pe_ratio = NULL \/ ~IsNumber(pe_ratio) THEN NULL ELSE pe_ratio

\* Line 142: round(float(market_cap) / 1e9, 2) if market_cap else 0, in
\* hundredths of a billion.
MarketCapB(info) ==
    LET market_cap == InfoGet(info, "marketCap", Real(0))
    IN  IF Truthy(market_cap) THEN Real(RoundDiv(market_cap.real, 10000000)) ELSE Real(0)

\* Lines 127-152: one symbol; infos[sym] = Raise when yf.Ticker(sym).info
\* raises, which is logged and the symbol skipped.
FundaOfSymbol(sym, infos, today) ==
    IF infos[sym] = Raise THEN <<>>
    ELSE << [Symbol |-> sym,
             Company |-> InfoGet(infos[sym], "longName", NULL),
             MarketCap |-> MarketCapB(infos[sym]),
             PE |-> SelectPE(infos[sym]),
             last_fundamentals_update |-> Time(today)] >>

\* get_fundamental_data_yfinance(symbols): pd.DataFrame(funda_data).
RECURSIVE get_fundamental_data_yfinance(_, _, _)
get_fundamental_data_yfinance(symbols, infos, today) ==
    IF symbols = <<>> THEN <<>>
    ELSE FundaOfSymbol(Head(symbols), infos, today)
         \o get_fundamental_data_yfinance(Tail(symbols), infos, today)

\* ---------------------------------------------------------------- src/etl.py

\* Mutant: to_sql(if_exists="append"), a merge into the rows already there.
update_sp500_list_append(companies, sp500_df) == companies \o sp500_df

\* update_sp500_list: to_sql(if_exists="replace") drops the table and loads
\* the frame.
update_sp500_list(companies, sp500_df) == sp500_df

\* A stock_data row as INSERT leaves it: every column not named is NULL.
BlankRow ==
    [Company |-> NULL, MarketCap |-> NULL, PE |-> NULL,
     last_fundamentals_update |-> NULL,
     YTD |-> NULL, last_performance_update |-> NULL]

\* Mutant: INSERT OR REPLACE, which rewrites the whole row.
UpsertPerformanceRow_replace(db, r) ==
    [s \in DOMAIN db \cup {r.Symbol} |->
        IF s = r.Symbol
        THEN [BlankRow EXCEPT
                 !.YTD = r.YTD,
                 !.last_performance_update = r.last_performance_update]
        ELSE db[s]]

\* Lines 28-34: INSERT (Symbol, YTD, last_performance_update) ... ON
\* CONFLICT(Symbol) DO UPDATE SET those two columns.
UpsertPerformanceRow(db, r) ==
    [s \in DOMAIN db \cup {r.Symbol} |->
        IF s = r.Symbol
        THEN [(IF s \in DOMAIN db THEN db[s] ELSE BlankRow) EXCEPT
                 !.YTD = r.YTD,
                 !.last_performance_update = r.last_performance_update]
        ELSE db[s]]

\* update_performance_db's transaction: executemany over the frame's rows.
RECURSIVE update_performance_db(_, _)
update_performance_db(db, perf_df) ==
    IF perf_df = <<>> THEN db
    ELSE update_performance_db(UpsertPerformanceRow(db, Head(perf_df)), Tail(perf_df))

\* Line 63 (NaN to None) and SQLite's binding of a float NaN as NULL.
ToSql(v) == IF v = NaN THEN NULL ELSE v

\* Mutant: INSERT OR REPLACE, which rewrites the whole row.
UpsertFundamentalsRow_replace(db, r) ==
    [s \in DOMAIN db \cup {r.Symbol} |->
        IF s = r.Symbol
        THEN [BlankRow EXCEPT
                 !.Company = r.Company,
                 !.MarketCap = r.MarketCap,
                 !.PE = r.PE,
                 !.last_fundamentals_update = r.last_fundamentals_update]
        ELSE db[s]]

\* Mutant: one last-update stamp for the whole row: the fundamentals upsert
\* also sets last_performance_update.
UpsertFundamentalsRow_onestamp(db, r) ==
    [s \in DOMAIN db \cup {r.Symbol} |->
        IF s = r.Symbol
        THEN [(IF s \in DOMAIN db THEN db[s] ELSE BlankRow) EXCEPT
                 !.Company = ToSql(r.Company),
                 !.MarketCap = ToSql(r.MarketCap),
                 !.PE = ToSql(r.PE),
                 !.last_fundamentals_update = ToSql(r.last_fundamentals_update),
                 !.last_performance_update = ToSql(r.last_fundamentals_update)]
        ELSE db[s]]

\* Lines 52-60: INSERT (Symbol, Company, Market Cap, P/E,
\* last_fundamentals_update) ... ON CONFLICT(Symbol) DO UPDATE SET those four.
UpsertFundamentalsRow(db, r) ==
    [s \in DOMAIN db \cup {r.Symbol} |->
        IF s = r.Symbol
        THEN [(IF s \in DOMAIN db THEN db[s] ELSE BlankRow) EXCEPT
                 !.Company = ToSql(r.Company),
                 !.MarketCap = ToSql(r.MarketCap),
                 !.PE = ToSql(r.PE),
                 !.last_fundamentals_update = ToSql(r.last_fundamentals_update)]
        ELSE db[s]]

\* update_fundamentals_db's transaction.
RECURSIVE update_fundamentals_db(_, _)
update_fundamentals_db(db, funda_df) ==
    IF funda_df = <<>> THEN db
    ELSE update_fundamentals_db(UpsertFundamentalsRow(db, Head(funda_df)), Tail(funda_df))

\* ------------------------------------------------------------ src/main_app.py

\* The SELECT of load_data: one row per sp500_companies row, LEFT JOINed to
\* its stock_data row (Symbol is stock_data's primary key), NULLs when there
\* is none.
LeftJoin(companies, db) ==
    [i \in 1..Len(companies) |->
        LET c == companies[i]
            d == IF c.Symbol \in DOMAIN db THEN db[c.Symbol] ELSE BlankRow
        IN  [Symbol |-> c.Symbol, Security |-> c.Security,
             Company |-> d.Company, MarketCap |-> d.MarketCap, PE |-> d.PE,
             YTD |-> d.YTD,
             last_fundamentals_update |-> d.last_fundamentals_update,
             last_performance_update |-> d.last_performance_update]]

\* load_data: the query's rows, or on any exception (a table the query names
\* does not exist) the empty DataFrame (lines 41-43).  A missing
\* sp500_companies table is the empty relation here: both yield no rows.
load_data(companies, db, db_exists) ==
    IF ~db_exists THEN <<>> ELSE LeftJoin(companies, db)

\* ------------------------------------------------------------------- state

VARIABLES
    sp500_companies,    \* table sp500_companies: its rows, in rowid order
    stock_data,         \* table stock_data: Symbol (primary key) -> row
    stock_data_exists,  \* whether CREATE TABLE stock_data has ever committed
    pc,                 \* the statement of run_etl to execute next
    sp500_df,           \* run_etl's local sp500_df
    perf_df,            \* run_etl's local perf_df
    funda_df,           \* run_etl's local funda_df
    clock,              \* the wall clock datetime.now() reads
    lost,               \* the upserts of this run that failed and were logged
    last_run,           \* how the last run of etl.py ended, what it fetched, the store it left
    test                \* the unit case under test (UnitSpec only)

vars == <<sp500_companies, stock_data, stock_data_exists, pc, sp500_df, perf_df,
          funda_df, clock, lost, last_run, test>>

store == <<sp500_companies, stock_data, stock_data_exists>>

EmptyTable == [s \in {} |-> BlankRow]

NoTest == [kind |-> "none"]

\* A frame's rows without their timestamp column.
PerfValues(df) == [i \in 1..Len(df) |-> [Symbol |-> df[i].Symbol, YTD |-> df[i].YTD]]

FundaValues(df) ==
    [i \in 1..Len(df) |->
        [Symbol |-> df[i].Symbol, Company |-> df[i].Company,
         MarketCap |-> df[i].MarketCap, PE |-> df[i].PE]]

\* The record of a run that ended: how ("no_connection", "no_list",
\* "complete", or "exception" for an exception that left run_etl), the
\* process's exit status, what the run fetched and the store it left.
RunRecord(how, status, companies) ==
    [how |-> how, status |-> status,
     sp500_df |-> sp500_df, perf |-> PerfValues(perf_df), funda |-> FundaValues(funda_df),
     lost |-> lost, companies |-> companies, stock |-> stock_data]

NoRun ==
    [how |-> "none", status |-> 0, sp500_df |-> <<>>, perf |-> <<>>, funda |-> <<>>,
     lost |-> {}, companies |-> <<>>, stock |-> EmptyTable]

\* all_symbols = sp500_df['Symbol'].tolist()  (etl.py:87)
all_symbols == [i \in 1..Len(sp500_df) |-> sp500_df[i].Symbol]

\* The provider's answers the runs draw from.
BatchNumbers == 1..((MaxLen + batch_size - 1) \div batch_size)

\* The batches of a run: of a list of all of Symbols.
RunBatchNumbers == 1..((Cardinality(Symbols) + batch_size - 1) \div batch_size)

\* Between the runs modelled the provider's data for a symbol stays what it
\* is; what varies from run to run is whether the provider answers.
CloseOf(s) ==
    CASE s = "AAA" -> Series(<<100, 110, 90>>)
      [] s = "BBB" -> Series(<<80, 100>>)
      [] OTHER -> Series(<<50, 50>>)

InfoFull ==
    [trailingPE |-> Real(12), forwardPE |-> Real(15),
     marketCap |-> Real(1234567890), longName |-> Text("Inc")]

InfoForward ==
    [trailingPE |-> Missing, forwardPE |-> Real(15),
     marketCap |-> Real(2000000000), longName |-> Text("Corp")]

InfoBare ==
    [trailingPE |-> Missing, forwardPE |-> Missing,
     marketCap |-> Missing, longName |-> Missing]

InfoOf(s) ==
    CASE s = "AAA" -> InfoFull
      [] s = "BBB" -> InfoForward
      [] OTHER -> InfoBare

\* A download's columns: per symbol its series, an empty one, or no column.
RunCloses == {c \in [Symbols -> {Absent, Series(<<>>)} \cup {CloseOf(s) : s \in Symbols}] :
                \A s \in Symbols : c[s] \in {Absent, Series(<<>>), CloseOf(s)}}

\* Ticker(sym).info per symbol: its bag, or the access raises.
RunInfos == {f \in [Symbols -> {Raise} \cup {InfoOf(s) : s \in Symbols}] :
                \A s \in Symbols : f[s] \in {Raise, InfoOf(s)}}

Init ==
    /\ sp500_companies = <<>>
    /\ stock_data = EmptyTable
    /\ stock_data_exists = FALSE
    /\ pc = "start"
    /\ sp500_df = <<>>
    /\ perf_df = <<>>
    /\ funda_df = <<>>
    /\ clock = 0
    /\ lost = {}
    /\ last_run = NoRun
    /\ test = NoTest

\* The process ends: its locals are gone, the run is on record.
Exit(how, status, companies) ==
    /\ pc' = "exited"
    /\ last_run' = RunRecord(how, status, companies)
    /\ sp500_df' = <<>>
    /\ perf_df' = <<>>
    /\ funda_df' = <<>>
    /\ lost' = {}

\* etl.py:103-104, 74-77: python etl.py calls run_etl; create_connection
\* returns the connection, or None on sqlite3.Error and run_etl returns.
Connect ==
    /\ pc \in {"start", "exited"}
    /\ clock + 2 <= MaxClock
    /\ \E connected \in BOOLEAN :
        IF connected
        THEN /\ pc' = "create_tables"
             /\ UNCHANGED <<sp500_df, perf_df, funda_df, lost, last_run>>
        ELSE Exit("no_connection", 0, sp500_companies)
    /\ UNCHANGED <<store, clock, test>>

\* etl.py:79, database.py:15-48: CREATE TABLE IF NOT EXISTS for both tables
\* in one transaction; sqlite3.Error is logged and swallowed.
CreateTables ==
    /\ pc = "create_tables"
    /\ \E ok \in BOOLEAN : stock_data_exists' = (stock_data_exists \/ ok)
    /\ pc' = "get_sp500_list"
    /\ UNCHANGED <<sp500_companies, stock_data, sp500_df, perf_df, funda_df, clock,
                   lost, last_run, test>>

\* Mutant: run_etl without `if sp500_df.empty: return` (etl.py:83-85): the
\* run goes on with whatever frame the fetch returned.
GetSp500List_noabort ==
    /\ pc = "get_sp500_list"
    /\ \E page \in {Raise} \cup {Table(f) : f \in ConstituentFrames} :
        sp500_df' = get_sp500_list(page)
    /\ pc' = "update_sp500_list"
    /\ UNCHANGED <<store, perf_df, funda_df, lost, last_run, clock, test>>

\* etl.py:82-85: the constituent fetch; an empty frame ends the run.
GetSp500List ==
    /\ pc = "get_sp500_list"
    /\ \E page \in {Raise} \cup {Table(f) : f \in ConstituentFrames} :
        LET df == get_sp500_list(page)
        IN  IF df = <<>>
            THEN Exit("no_list", 0, sp500_companies)
            ELSE /\ sp500_df' = df
                 /\ pc' = "update_sp500_list"
                 /\ UNCHANGED <<perf_df, funda_df, lost, last_run>>
    /\ UNCHANGED <<store, clock, test>>

\* etl.py:86, 18-21: to_sql replaces the table.  Nothing catches its
\* exception: it leaves run_etl and the interpreter exits with status 1.
\* The failure strikes before the DROP (table as it was) or after it (no
\* rows: the INSERTs are rolled back).
UpdateSp500List ==
    /\ pc = "update_sp500_list"
    /\ \E ok \in BOOLEAN :
        IF ok
        THEN /\ sp500_companies' = update_sp500_list(sp500_companies, sp500_df)
             /\ pc' = "get_performance_data"
             /\ UNCHANGED <<sp500_df, perf_df, funda_df, lost, last_run>>
        ELSE \E left \in {sp500_companies, <<>>} :
                /\ sp500_companies' = left
                /\ Exit("exception", 1, left)
    /\ UNCHANGED <<stock_data, stock_data_exists, clock, test>>

\* etl.py:90-91: the performance fetch, stamped with the time it starts.
GetPerformanceData ==
    /\ pc = "get_performance_data"
    /\ clock' = clock + 1
    /\ \E raises \in SUBSET RunBatchNumbers, closes \in RunCloses :
        perf_df' = get_performance_data(all_symbols, raises, closes, clock')
    /\ pc' = IF perf_df' # <<>> THEN "update_performance_db" ELSE "get_fundamental_data"
    /\ UNCHANGED <<store, sp500_df, funda_df, lost, last_run, test>>

\* etl.py:92, 23-40: the upsert commits, or raises (no such table, database
\* locked, a value that cannot be bound), is rolled back and logged.
UpdatePerformanceDb ==
    /\ pc = "update_performance_db"
    /\ \E ok \in BOOLEAN :
        IF ok /\ stock_data_exists
        THEN /\ stock_data' = update_performance_db(stock_data, perf_df)
             /\ lost' = lost
        ELSE /\ stock_data' = stock_data
             /\ lost' = lost \cup {"perf"}
    /\ pc' = "get_fundamental_data"
    /\ UNCHANGED <<sp500_companies, stock_data_exists, sp500_df, perf_df, funda_df,
                   clock, last_run, test>>

\* etl.py:96-97: the fundamentals fetch, stamped with the time it starts.
GetFundamentalData ==
    /\ pc = "get_fundamental_data"
    /\ clock' = clock + 1
    /\ \E infos \in RunInfos :
        funda_df' = get_fundamental_data_yfinance(all_symbols, infos, clock')
    /\ pc' = IF funda_df' # <<>> THEN "update_fundamentals_db" ELSE "close"
    /\ UNCHANGED <<store, sp500_df, perf_df, lost, last_run, test>>

\* etl.py:98, 42-68: as the performance upsert (the empty frame returns at
\* line 47-49 and changes nothing).
UpdateFundamentalsDb ==
    /\ pc = "update_fundamentals_db"
    /\ \E ok \in BOOLEAN :
        IF funda_df = <<>>
        THEN UNCHANGED <<stock_data, lost>>
        ELSE IF ok /\ stock_data_exists
        THEN /\ stock_data' = update_fundamentals_db(stock_data, funda_df)
             /\ lost' = lost
        ELSE /\ stock_data' = stock_data
             /\ lost' = lost \cup {"funda"}
    /\ pc' = "close"
    /\ UNCHANGED <<sp500_companies, stock_data_exists, sp500_df, perf_df, funda_df,
                   clock, last_run, test>>

\* etl.py:100-101: conn.close(); run_etl returns and the process exits 0.
Close ==
    /\ pc = "close"
    /\ Exit("complete", 0, sp500_companies)
    /\ UNCHANGED <<store, clock, test>>

Next ==
    \/ Connect
    \/ CreateTables
    \/ GetSp500List
    \/ UpdateSp500List
    \/ GetPerformanceData
    \/ UpdatePerformanceDb
    \/ GetFundamentalData
    \/ UpdateFundamentalsDb
    \/ Close

Spec == Init /\ [][Next]_vars

\* -------------------------------------------------------------- unit cases
\* The functions of data_loader.py and the two upserts of etl.py called on
\* their own, on inputs drawn by the initial state.

UnitCloses ==
    [UnitSymbols -> {Absent, Series(<<>>), Series(<<100, 110, 90>>), Series(<<80, 100>>)}]

PerformanceCases ==
    {[kind |-> "perf", symbols |-> l, raises |-> r, closes |-> c] :
        l \in SymbolLists, r \in SUBSET BatchNumbers, c \in UnitCloses}

\* Every bag of the four keys get_fundamental_data_yfinance reads.
InfoBags ==
    [trailingPE : {Missing, NULL, Real(12), Text("Infinity")},
     forwardPE : {Missing, NULL, Real(15), Text("Infinity")},
     marketCap : {Missing, NULL, Real(1234567890)},
     longName : {Missing, Text("Inc")}]

\* One symbol answers with any bag or raises; the others all raise or all
\* answer InfoFull.
UnitInfos ==
    {[s \in UnitSymbols |-> IF s = t THEN b ELSE c] :
        t \in UnitSymbols, b \in InfoBags \cup {Raise}, c \in {Raise, InfoFull}}

FundamentalsCases ==
    {[kind |-> "funda", symbols |-> l, infos |-> f] : l \in SymbolLists, f \in UnitInfos}

InfoNaN ==
    [trailingPE |-> NaN, forwardPE |-> Real(15),
     marketCap |-> Real(1234567890), longName |-> Text("Inc")]

\* The frames the upsert cases use are frames the two fetches return: for
\* the rows already stored, of an earlier day (times 1 and 2); for the
\* upserts under test, of times 3 and 4 and other values.
UpsertLists ==
    {l \in SymbolLists : Len(l) <= 2 /\ \A i \in 1..Len(l) : l[i] \in {"AAA", "BBB"}}

OldPerformanceFrames ==
    {get_performance_data(l, {}, [s \in UnitSymbols |-> Series(<<100, 110, 90>>)], 1) :
        l \in {<<>>, <<"AAA">>, <<"BBB">>, <<"AAA", "BBB">>}}

OldFundamentalsFrames ==
    {get_fundamental_data_yfinance(l, [s \in UnitSymbols |-> InfoFull], 2) :
        l \in {<<>>, <<"AAA">>, <<"BBB">>, <<"AAA", "BBB">>}}

NewPerformanceFrames ==
    {get_performance_data(l, {}, [s \in UnitSymbols |-> Series(<<80, 100>>)], 3) :
        l \in UpsertLists}

NewFundamentalsFrames ==
    {get_fundamental_data_yfinance(l, f, 4) :
        l \in UpsertLists, f \in [{"AAA", "BBB"} -> {InfoForward, InfoBare, InfoNaN}]}

UpsertCases ==
    {[kind |-> "upsert", first |-> o, old_perf |-> op, old_funda |-> of] :
        o \in {"perf", "funda"}, op \in OldPerformanceFrames, of \in OldFundamentalsFrames}

\* The store an upsert case starts from.
PriorStock(case) ==
    update_fundamentals_db(update_performance_db(EmptyTable, case.old_perf), case.old_funda)

UnitInit ==
    /\ test \in PerformanceCases \cup FundamentalsCases \cup UpsertCases
    /\ pc = "unit"
    /\ sp500_companies = <<>>
    /\ stock_data_exists = TRUE
    /\ stock_data = IF test.kind = "upsert" THEN PriorStock(test) ELSE EmptyTable
    /\ sp500_df = <<>>
    /\ IF test.kind = "upsert"
       THEN perf_df \in NewPerformanceFrames /\ funda_df \in NewFundamentalsFrames
       ELSE perf_df = <<>> /\ funda_df = <<>>
    /\ clock = 0
    /\ lost = {}
    /\ last_run = NoRun

\* perf_df = get_performance_data(symbols)
UnitGetPerformanceData ==
    /\ pc = "unit" /\ test.kind = "perf"
    /\ clock' = clock + 1
    /\ perf_df' = get_performance_data(test.symbols, test.raises, test.closes, clock')
    /\ pc' = "unit_done"
    /\ UNCHANGED <<store, sp500_df, funda_df, lost, last_run, test>>

\* funda_df = get_fundamental_data_yfinance(symbols)
UnitGetFundamentalData ==
    /\ pc = "unit" /\ test.kind = "funda"
    /\ clock' = clock + 1
    /\ funda_df' = get_fundamental_data_yfinance(test.symbols, test.infos, clock')
    /\ pc' = "unit_done"
    /\ UNCHANGED <<store, sp500_df, perf_df, lost, last_run, test>>

\* Which upsert an upsert case applies next: test.first, then the other.
UnitTurn ==
    IF test.kind # "upsert" THEN "none"
    ELSE IF pc = "unit" THEN test.first
    ELSE IF pc = "unit_second" THEN (IF test.first = "perf" THEN "funda" ELSE "perf")
    ELSE "none"

\* update_performance_db(conn, perf_df), committed.
UnitUpdatePerformanceDb ==
    /\ UnitTurn = "perf"
    /\ stock_data' = update_performance_db(stock_data, perf_df)
    /\ pc' = IF pc = "unit" THEN "unit_second" ELSE "unit_done"
    /\ UNCHANGED <<sp500_companies, stock_data_exists, sp500_df, perf_df, funda_df,
                   clock, lost, last_run, test>>

\* update_fundamentals_db(conn, funda_df), committed.
UnitUpdateFundamentalsDb ==
    /\ UnitTurn = "funda"
    /\ stock_data' = update_fundamentals_db(stock_data, funda_df)
    /\ pc' = IF pc = "unit" THEN "unit_second" ELSE "unit_done"
    /\ UNCHANGED <<sp500_companies, stock_data_exists, sp500_df, perf_df, funda_df,
                   clock, lost, last_run, test>>

UnitNext ==
    \/ UnitGetPerformanceData
    \/ UnitGetFundamentalData
    \/ UnitUpdatePerformanceDb
    \/ UnitUpdateFundamentalsDb

UnitSpec == UnitInit /\ [][UnitNext]_vars

\* ------------------------------------------------------------------ claims

PerformanceColumns(row) == <<row.YTD, row.last_performance_update>>

FundamentalsColumns(row) ==
    <<row.Company, row.MarketCap, row.PE, row.last_fundamentals_update>>

\* Row s is the same before and after the step: absent in both, or equal.
RowUntouched(s) ==
    IF s \in DOMAIN stock_data
    THEN s \in DOMAIN stock_data' /\ stock_data'[s] = stock_data[s]
    ELSE s \notin DOMAIN stock_data'

\* C1: the performance upsert leaves the four fundamentals columns of every
\* row as they were and the fundamentals upsert the two performance columns;
\* a row either upsert creates has the other category's columns NULL; no row
\* is deleted, and the row of a symbol not in the frame is untouched.
C1_ColumnScopedUpsert ==
    [][ /\ pc = "update_performance_db" =>
            \A s \in Symbols :
                /\ s \in DOMAIN stock_data =>
                    /\ s \in DOMAIN stock_data'
                    /\ FundamentalsColumns(stock_data'[s]) = FundamentalsColumns(stock_data[s])
                /\ (s \notin DOMAIN stock_data /\ s \in DOMAIN stock_data') =>
                    FundamentalsColumns(stock_data'[s]) = <<NULL, NULL, NULL, NULL>>
                /\ s \notin SymbolsOf(perf_df) => RowUntouched(s)
        /\ pc = "update_fundamentals_db" =>
            \A s \in Symbols :
                /\ s \in DOMAIN stock_data =>
                    /\ s \in DOMAIN stock_data'
                    /\ PerformanceColumns(stock_data'[s]) = PerformanceColumns(stock_data[s])
                /\ (s \notin DOMAIN stock_data /\ s \in DOMAIN stock_data') =>
                    PerformanceColumns(stock_data'[s]) = <<NULL, NULL>>
                /\ s \notin SymbolsOf(funda_df) => RowUntouched(s)
      ]_vars

\* C1 witness: a second run's performance upsert has just rewritten the
\* performance columns of a row whose fundamentals an earlier run wrote, and
\* another row of the table was not in the frame.
C1_Witness ==
    /\ pc = "get_fundamental_data"
    /\ \E s, t \in DOMAIN stock_data :
        /\ stock_data[s].last_performance_update = Time(clock)
        /\ stock_data[s].last_fundamentals_update # NULL
        /\ stock_data[s].Company # NULL
        /\ t \notin SymbolsOf(perf_df)

\* C2 (as claimed): a run whose constituent fetch returned a non-empty list
\* runs to Close; no exception leaves run_etl.
C2_OnlyFetchFailureIsFatal ==
    (pc = "exited" /\ last_run.sp500_df # <<>>) => last_run.how = "complete"

\* C3 (as claimed): after a completed run every stock_data row's symbol is
\* in sp500_companies.
C3_MetricsReferenceConstituents ==
    (pc = "exited" /\ last_run.how = "complete") =>
        DOMAIN stock_data \subseteq SymbolsOf(sp500_companies)

\* C4 (as claimed): a run whose constituent fetch failed exits with a nonzero
\* status, and a run whose fetch succeeded exits with status 0 whatever
\* failed later.
C4_ExitStatusReflectsFetch ==
    pc = "exited" =>
        /\ last_run.how = "no_list" => last_run.status # 0
        /\ last_run.sp500_df # <<>> => last_run.status = 0

\* The two stores hold the same rows, equal in every column but the two
\* update timestamps.
SameRowsButTimestamps(db1, db2) ==
    /\ DOMAIN db1 = DOMAIN db2
    /\ \A s \in DOMAIN db1 :
        /\ db1[s].Company = db2[s].Company
        /\ db1[s].MarketCap = db2[s].MarketCap
        /\ db1[s].PE = db2[s].PE
        /\ db1[s].YTD = db2[s].YTD

\* This run has fetched what the previous run, which completed, fetched.
SameUpstreamAsLastRun ==
    /\ pc = "close"
    /\ last_run.how = "complete"
    /\ last_run.sp500_df = sp500_df
    /\ last_run.perf = PerfValues(perf_df)
    /\ last_run.funda = FundaValues(funda_df)

\* C6 (as claimed): a run that fetched what the previous run fetched leaves
\* both relations as that run left them, timestamps aside.
C6_IdempotentAsClaimed ==
    SameUpstreamAsLastRun =>
        /\ sp500_companies = last_run.companies
        /\ SameRowsButTimestamps(stock_data, last_run.stock)

\* C6 (amended): the same, for two runs in which the same upserts failed.
C6_Idempotent ==
    (SameUpstreamAsLastRun /\ lost = last_run.lost) =>
        /\ sp500_companies = last_run.companies
        /\ SameRowsButTimestamps(stock_data, last_run.stock)

\* C6 witness: the second of two such runs is at Close, both upserts
\* committed in both, and a row's timestamps were refreshed.
C6_Witness ==
    /\ SameUpstreamAsLastRun
    /\ lost = {} /\ last_run.lost = {}
    /\ \E s \in DOMAIN stock_data \cap DOMAIN last_run.stock :
        /\ stock_data[s].YTD # NULL /\ stock_data[s].PE # NULL
        /\ stock_data[s].last_performance_update
               # last_run.stock[s].last_performance_update
        /\ stock_data[s].last_fundamentals_update
               # last_run.stock[s].last_fundamentals_update

\* C8 (as claimed): after a completed run the dashboard's read has a row for
\* every constituent, its metrics NULL when the constituent has no
\* stock_data row.
C8_JoinKeepsEveryConstituent ==
    (pc = "exited" /\ last_run.how = "complete") =>
        LET df == load_data(sp500_companies, stock_data, stock_data_exists)
        IN  \A i \in 1..Len(sp500_companies) :
                \E j \in 1..Len(df) :
                    /\ df[j].Symbol = sp500_companies[i].Symbol
                    /\ sp500_companies[i].Symbol \notin DOMAIN stock_data =>
                        /\ df[j].Company = NULL /\ df[j].MarketCap = NULL
                        /\ df[j].PE = NULL /\ df[j].YTD = NULL
                        /\ df[j].last_fundamentals_update = NULL
                        /\ df[j].last_performance_update = NULL

\* C10: when update_sp500_list has returned, sp500_companies holds exactly
\* the rows of the frame it was given.
C10_ReplaceAll ==
    pc \in {"get_performance_data", "update_performance_db", "get_fundamental_data",
            "update_fundamentals_db", "close"} =>
        sp500_companies = sp500_df

\* C10 witness: the replace has just dropped a symbol the previous run's
\* relation held.
C10_Witness ==
    /\ pc = "get_performance_data"
    /\ \E s \in SymbolsOf(last_run.companies) : s \notin SymbolsOf(sp500_companies)

\* A real number (an int or a float that is not NaN).
IsReal(v) == "real" \in DOMAIN v

\* C5 (as claimed): the P/E of every record get_fundamental_data_yfinance
\* returns is the bag's trailing P/E when that is a number, else its forward
\* P/E when that is a number, else None.
C5_PESelection ==
    (pc = "unit_done" /\ test.kind = "funda") =>
        \A i \in 1..Len(funda_df) :
            LET info == test.infos[funda_df[i].Symbol]
            IN  funda_df[i].PE =
                    IF IsReal(info.trailingPE) THEN info.trailingPE
                    ELSE IF IsReal(info.forwardPE) THEN info.forwardPE
                    ELSE NULL

\* The row of symbol s in a frame that has exactly one.
RowOf(df, s) == df[CHOOSE i \in 1..Len(df) : df[i].Symbol = s]

\* C7: the two upserts applied to a store in either order leave the store
\* the other order leaves, and every symbol in both frames has a row with
\* the performance values and the fundamentals values supplied (a NaN
\* supplied is stored as NULL).
C7_UpsertsCommute ==
    (pc = "unit_done" /\ test.kind = "upsert") =>
        LET prior == PriorStock(test)
        IN  /\ stock_data
                 = update_fundamentals_db(update_performance_db(prior, perf_df), funda_df)
            /\ stock_data
                 = update_performance_db(update_fundamentals_db(prior, funda_df), perf_df)
            /\ \A s \in SymbolsOf(perf_df) \cap SymbolsOf(funda_df) :
                LET p == RowOf(perf_df, s)
                    f == RowOf(funda_df, s)
                    row == stock_data[s]
                IN  /\ row.YTD = p.YTD /\ row.YTD # NULL
                    /\ row.last_performance_update = p.last_performance_update
                    /\ row.last_performance_update # NULL
                    /\ row.Company = f.Company
                    /\ row.MarketCap = f.MarketCap /\ row.MarketCap # NULL
                    /\ row.PE = (IF f.PE = NaN THEN NULL ELSE f.PE)
                    /\ row.last_fundamentals_update = f.last_fundamentals_update
                    /\ row.last_fundamentals_update # NULL

\* C7 witness: fundamentals first, then performance (the order run_etl does
\* not take), on a symbol whose row held both categories of an earlier day.
C7_Witness ==
    /\ pc = "unit_done" /\ test.kind = "upsert" /\ test.first = "funda"
    /\ \E s \in SymbolsOf(perf_df) \cap SymbolsOf(funda_df) :
        /\ s \in DOMAIN PriorStock(test)
        /\ PriorStock(test)[s].YTD # NULL
        /\ PriorStock(test)[s].Company # NULL
        /\ stock_data[s] # PriorStock(test)[s]

\* The batch (numbered from 1) of the k-th symbol of a list.
BatchOf(k) == ((k - 1) \div batch_size) + 1

\* C9: get_performance_data returns exactly one record for each symbol of
\* the list whose batch's download did not raise and whose close series is
\* not empty, that record computed from the symbol's own series, and no
\* record for any other symbol.
C9_PerformanceIsolatesFailures ==
    (pc = "unit_done" /\ test.kind = "perf") =>
        \A s \in UnitSymbols :
            LET rows == {i \in 1..Len(perf_df) : perf_df[i].Symbol = s}
                served ==
                    /\ \E k \in 1..Len(test.symbols) :
                            test.symbols[k] = s /\ BatchOf(k) \notin test.raises
                    /\ test.closes[s] # Absent
                    /\ test.closes[s] # Series(<<>>)
            IN  IF served
                THEN /\ Cardinality(rows) = 1
                     /\ \A i \in rows :
                            perf_df[i] =
                                [Symbol |-> s,
                                 YTD |-> Real(YtdReturn(test.closes[s].close)),
                                 last_performance_update |-> Time(clock)]
                ELSE rows = {}

\* C9 witness: the first batch's download raised though its first symbol
\* had prices, the second batch's did not and its symbol has the one record
\* returned; some symbol of the list had no column in its download.
C9_Witness ==
    /\ pc = "unit_done" /\ test.kind = "perf"
    /\ Len(test.symbols) > batch_size
    /\ 1 \in test.raises /\ 2 \notin test.raises
    /\ test.closes[test.symbols[1]] = Series(<<100, 110, 90>>)
    /\ Len(perf_df) = 1
    /\ \E k \in 1..Len(test.symbols) : test.closes[test.symbols[k]] = Absent

\* ------------------------------------------------------ aborted runs
\* C11: when the constituent fetch returns an empty frame, run_etl ends
\* there with the store as the run found it.  Up to the fetch a run touches
\* neither table's rows, reads no clock and has fetched and upserted nothing;
\* the step that takes the fetch's result either goes on to update_sp500_list
\* with a non-empty frame, or ends the run at once: both tables hold what the
\* previous run left, no time was captured, and the run's record shows no
\* performance or fundamentals frame and no upsert attempted.
C11_FetchFailureAborts ==
    [][ /\ pc' \in {"create_tables", "get_sp500_list"} =>
            /\ sp500_companies' = last_run'.companies
            /\ stock_data' = last_run'.stock
            /\ clock' = clock
            /\ perf_df' = <<>> /\ funda_df' = <<>> /\ lost' = {}
        /\ pc = "get_sp500_list" =>
            IF sp500_df' = <<>>
            THEN /\ pc' = "exited"
                 /\ last_run'.how = "no_list"
                 /\ sp500_companies' = last_run.companies
                 /\ stock_data' = last_run.stock
                 /\ last_run'.companies = last_run.companies
                 /\ last_run'.stock = last_run.stock
                 /\ clock' = clock
                 /\ last_run'.perf = <<>> /\ last_run'.funda = <<>>
                 /\ last_run'.lost = {}
            ELSE pc' = "update_sp500_list"
      ]_vars

\* A run aborted on an empty constituent frame with both tables populated by
\* an earlier run, and both still as that run left them.
C11_Witness ==
    /\ pc = "exited"
    /\ last_run.how = "no_list"
    /\ sp500_companies # <<>>
    /\ DOMAIN stock_data # {}
    /\ \E s \in DOMAIN stock_data :
        /\ stock_data[s].last_performance_update # NULL
        /\ stock_data[s].last_fundamentals_update # NULL
    /\ sp500_companies = last_run.companies
    /\ stock_data = last_run.stock

\* ------------------------------------------------------ freshness timestamps
\* A symbol's columns of one category in a stock_data table; NULLs when the
\* symbol has no row.
PerfCols(db, s) ==
    IF s \in DOMAIN db
    THEN [YTD |-> db[s].YTD, last_performance_update |-> db[s].last_performance_update]
    ELSE [YTD |-> NULL, last_performance_update |-> NULL]

FundaCols(db, s) ==
    IF s \in DOMAIN db
    THEN [Company |-> db[s].Company, MarketCap |-> db[s].MarketCap, PE |-> db[s].PE,
          last_fundamentals_update |-> db[s].last_fundamentals_update]
    ELSE [Company |-> NULL, MarketCap |-> NULL, PE |-> NULL,
          last_fundamentals_update |-> NULL]

\* The steps of a run after which update_performance_db, and after which
\* update_fundamentals_db, has returned or been skipped.
PerfSettled == pc \in {"get_fundamental_data", "update_fundamentals_db", "close"}

FundaSettled == pc = "close"

\* The clock readings this run's two fetches captured.
PerfFetchTime == IF pc \in {"update_fundamentals_db", "close"} THEN clock - 1 ELSE clock

FundaFetchTime == clock

\* The store's columns of each category against this run's fetches, given
\* for each category the symbols the run counts as refreshed: a refreshed
\* symbol carries the time its category's fetch captured (and the values
\* fetched); every other symbol, and every symbol until the category's
\* upsert has had its turn, carries what the previous run left.
FreshnessOf(perf_refreshed, funda_refreshed) ==
    \A s \in Symbols :
        /\ IF PerfSettled /\ s \in perf_refreshed
           THEN /\ s \in DOMAIN stock_data
                /\ stock_data[s].last_performance_update = Time(PerfFetchTime)
                /\ stock_data[s].YTD = RowOf(perf_df, s).YTD
           ELSE PerfCols(stock_data, s) = PerfCols(last_run.stock, s)
        /\ IF FundaSettled /\ s \in funda_refreshed
           THEN /\ s \in DOMAIN stock_data
                /\ stock_data[s].last_fundamentals_update = Time(FundaFetchTime)
                /\ stock_data[s].PE = ToSql(RowOf(funda_df, s).PE)
                /\ stock_data[s].MarketCap = ToSql(RowOf(funda_df, s).MarketCap)
                /\ stock_data[s].Company = ToSql(RowOf(funda_df, s).Company)
           ELSE FundaCols(stock_data, s) = FundaCols(last_run.stock, s)

\* C12 as stated: a symbol's timestamp and values of a category are those
\* of the most recent run whose fetch of that category succeeded for the
\* symbol: run by run, every symbol in the run's performance frame carries
\* the time the performance fetch captured, every symbol in its fundamentals
\* frame the time the fundamentals fetch captured, and the columns of a
\* category whose fetch failed for the symbol are as the previous run left
\* them.
C12_FreshnessAsClaimed ==
    FreshnessOf(SymbolsOf(perf_df), SymbolsOf(funda_df))

\* C12, amended: as stated, for the categories whose upsert committed; a
\* category whose upsert failed in the run leaves every symbol's columns of
\* that category as the previous run left them.
C12_Freshness ==
    FreshnessOf(IF "perf" \in lost THEN {} ELSE SymbolsOf(perf_df),
                IF "funda" \in lost THEN {} ELSE SymbolsOf(funda_df))

\* The end of a second run in which one symbol's performance fetch failed
\* and another's fundamentals fetch failed, both upserts committing: the
\* first keeps the first run's performance time beside this run's
\* fundamentals time, the second the reverse.
C12_Witness ==
    /\ pc = "close"
    /\ clock = 4
    /\ lost = {}
    /\ \E s, t \in DOMAIN stock_data :
        /\ s \notin SymbolsOf(perf_df) /\ s \in SymbolsOf(funda_df)
        /\ stock_data[s].last_performance_update = Time(1)
        /\ stock_data[s].last_fundamentals_update = Time(4)
        /\ t \in SymbolsOf(perf_df) /\ t \notin SymbolsOf(funda_df)
        /\ stock_data[t].last_performance_update = Time(3)
        /\ stock_data[t].last_fundamentals_update = Time(2)

====
